---- MODULE Spec2Model ----
(***************************************************************************)
(* Model of fission/portforward/portforward.go: Setup, findFreePort and    *)
(* runPortForward.  The process has two goroutines, the caller of Setup    *)
(* and the goroutine Setup starts; they share only the host's TCP port     *)
(* namespace, which other processes bind and release at any time.          *)
(* Strings the code builds or parses (port numbers, the "local:remote"     *)
(* port pair) are sequences of one-character strings.                      *)
(***************************************************************************)
EXTENDS Integers, Sequences, FiniteSets, TLC

\* ---------------------------------------------------------------- bounds
FirstPort == 9        \* lowest ephemeral port of the modelled host
NumPorts == 2         \* number of ephemeral ports of the modelled host
MaxPods == 2          \* longest pod list the API server returns
MaxSvcs == 2          \* longest service list the API server returns
MaxSvcPorts == 2      \* most ports one service declares
MaxPolls == 3         \* the poll counter saturates here (the loop does not)

Ports == FirstPort..(FirstPort + NumPorts - 1)

\* ---------------------------------------------------------------- strings
Digits == <<"0", "1", "2", "3", "4", "5", "6", "7", "8", "9">>

IsDigit(c) == \E i \in 1..10 : Digits[i] = c

DigitVal(c) == (CHOOSE i \in 1..10 : Digits[i] = c) - 1

RECURSIVE Itoa(_)
\* strconv.Itoa for n >= 0: decimal digits, most significant first
Itoa(n) == IF n < 10 THEN <<Digits[n + 1]>>
           ELSE Itoa(n \div 10) \o <<Digits[(n % 10) + 1]>>

RECURSIVE ParseUint(_)
\* strconv.ParseUint(s, 10, 16): -1 stands for the error return
ParseUint(s) ==
    IF Len(s) = 0 THEN -1
    ELSE IF ~IsDigit(s[Len(s)]) THEN -1
    ELSE IF Len(s) = 1 THEN DigitVal(s[1])
    ELSE LET hi == ParseUint(SubSeq(s, 1, Len(s) - 1))
         IN  IF hi = -1 THEN -1
             ELSE IF hi * 10 + DigitVal(s[Len(s)]) > 65535 THEN -1
             ELSE hi * 10 + DigitVal(s[Len(s)])

RECURSIVE Split(_, _)
\* strings.Split(s, sep) for a one-character separator
Split(s, sep) ==
    IF \A i \in 1..Len(s) : s[i] # sep THEN <<s>>
    ELSE LET k == CHOOSE i \in 1..Len(s) :
                     s[i] = sep /\ \A j \in 1..(i - 1) : s[j] # sep
         IN  <<SubSeq(s, 1, k - 1)>> \o Split(SubSeq(s, k + 1, Len(s)), sep)

SeqsUpTo(S, n) == UNION {[1..k -> S] : k \in 0..n}

\* the lists of at most n items of S that repeat one item: what a reader of the
\* length and of the first item alone can tell apart
ListsByHead(S, n) == {<<>>} \cup {[i \in 1..k |-> x] : k \in 1..n, x \in S}

\* ---------------------------------------------------------------- inputs
Namespaces == {"", "fission"}               \* "" is meta_v1.NamespaceAll
Selectors == {"application=fission-api"}

PodSet == {[name |-> "controller-a", ns |-> "fission"],
           [name |-> "controller-b", ns |-> "fission"],
           [name |-> "controller-c", ns |-> "fission2"]}

\* intstr.IntOrString values a service port can carry as its targetPort
TargetPortVals == {[type |-> "Int", intVal |-> 8080, strVal |-> <<>>],
                   [type |-> "Int", intVal |-> 9090, strVal |-> <<>>],
                   [type |-> "String", intVal |-> 0,
                    strVal |-> <<"h", "t", "t", "p">>]}

\* a service is its Spec.Ports, each port given by its TargetPort
ServiceSet == SeqsUpTo(TargetPortVals, MaxSvcPorts)

\* IntOrString.String()
TargetPortString(tp) == IF tp.type = "String" THEN tp.strVal ELSE Itoa(tp.intVal)

NoService == <<[type |-> "String", intVal |-> -1, strVal |-> <<>>]>>

\* ---------------------------------------------------------------- state
VARIABLES
    owner,          \* host port namespace: who listens on each port
    fatal,          \* message of the log.Fatal that ended the process, "" while it runs
    namespace,      \* Setup's namespace argument
    labelSelector,  \* Setup's labelSelector argument
    pc,             \* position of the goroutine that called Setup
    listener,       \* findFreePort: port of its listener, 0 when it has none
    port,           \* findFreePort: the string it returns
    allocErr,       \* findFreePort: whether it returns an error
    localPort,      \* Setup: localPort
    conn,           \* Setup: conn of the last net.DialTimeout ("unset" before any)
    freePolls,      \* Setup: sleeps taken so far in the first loop (saturating)
    spawned,        \* goroutines started by the go statement
    result,         \* the string Setup returned, <<>> before it returns
    bgpc,           \* position of the goroutine started by Setup
    bgLocalPort,    \* runPortForward: its localPort argument
    ns,             \* runPortForward: ns
    podQuery,       \* requests sent to Pods(ns).List
    podErr,         \* runPortForward: whether Pods(ns).List returned an error
    podList,        \* runPortForward: podList.Items
    svcQuery,       \* requests sent to Services(podNameSpace).List
    svcErr,         \* runPortForward: whether Services(...).List returned an error
    svcCount,       \* runPortForward: len(svcs.Items)
    podName,        \* runPortForward: podName
    podNameSpace,   \* runPortForward: podNameSpace
    service,        \* runPortForward: *service, NoService before it is set
    targetPort,     \* runPortForward: targetPort
    ports,          \* runPortForward: ports
    fwPorts,        \* the forwarder's parsed <<local, remote>> pairs
    launches,       \* calls of fw.ForwardPorts
    err             \* the goroutine's err: "unset", "nil" or "error"

setupVars == <<pc, listener, port, allocErr, localPort, conn, freePolls, spawned, result>>
resolveVars == <<podQuery, podErr, podList, svcQuery, svcErr, svcCount, podName,
                 podNameSpace, service, targetPort, ports>>
bgVars == <<bgpc, bgLocalPort, ns, resolveVars, fwPorts, launches, err>>
argVars == <<namespace, labelSelector>>
vars == <<owner, fatal, argVars, setupVars, bgVars>>

Running == fatal = ""

\* the sockets of the process are closed by the kernel when it exits
ReleaseAll(o) == [p \in Ports |-> IF o[p] \in {"alloc", "tunnel"} THEN "free" ELSE o[p]]

\* log.Fatal(msg): print msg and exit the process
Fatal(msg) ==
    /\ fatal' = msg
    /\ owner' = ReleaseAll(owner)

\* net.DialTimeout("tcp", net.JoinHostPort("", p), time.Millisecond): a connection
\* when some socket listens on the port the string names, nil otherwise
DialTimeout(o, p) ==
    IF ParseUint(p) \in Ports /\ o[ParseUint(p)] # "free" THEN "open" ELSE "nil"

Init ==
    /\ owner \in [Ports -> {"free", "other"}]
    /\ fatal = ""
    /\ namespace \in Namespaces
    /\ labelSelector \in Selectors
    /\ pc = "listen"
    /\ listener = 0
    /\ port = <<>>
    /\ allocErr = FALSE
    /\ localPort = <<>>
    /\ conn = "unset"
    /\ freePolls = 0
    /\ spawned = 0
    /\ result = <<>>
    /\ bgpc = "none"
    /\ bgLocalPort = <<>>
    /\ ns = ""
    /\ podQuery = <<>>
    /\ podErr = FALSE
    /\ podList = <<>>
    /\ svcQuery = <<>>
    /\ svcErr = FALSE
    /\ svcCount = 0
    /\ podName = ""
    /\ podNameSpace = ""
    /\ service = NoService
    /\ targetPort = <<>>
    /\ ports = <<>>
    /\ fwPorts = <<>>
    /\ launches = 0
    /\ err = "unset"

\* ---------------------------------------------------------------- other processes
OtherBind ==
    \E p \in Ports :
        /\ owner[p] = "free"
        /\ owner' = [owner EXCEPT ![p] = "other"]
        /\ UNCHANGED <<fatal, argVars, setupVars, bgVars>>

OtherRelease ==
    \E p \in Ports :
        /\ owner[p] = "other"
        /\ owner' = [owner EXCEPT ![p] = "free"]
        /\ UNCHANGED <<fatal, argVars, setupVars, bgVars>>

\* ---------------------------------------------------------------- findFreePort
\* net.Listen("tcp", ":0") binds a port the kernel chooses among the free ones
ListenOk ==
    /\ Running /\ pc = "listen"
    /\ \E p \in Ports :
        /\ owner[p] = "free"
        /\ owner' = [owner EXCEPT ![p] = "alloc"]
        /\ listener' = p
    /\ pc' = "close"
    /\ UNCHANGED <<fatal, argVars, port, allocErr, localPort, conn, freePolls, spawned,
                   result, bgVars>>

\* net.Listen fails (no free port, no descriptor, no permission): return "", err
ListenErr ==
    /\ Running /\ pc = "listen"
    /\ port' = <<>>
    /\ allocErr' = TRUE
    /\ pc' = "allocCheck"
    /\ UNCHANGED <<owner, fatal, argVars, listener, localPort, conn, freePolls, spawned,
                   result, bgVars>>

\* findFreePort without its listener.Close(): the port is returned still bound
CloseOkLeaked ==
    /\ Running /\ pc = "close"
    /\ port' = Itoa(listener)
    /\ allocErr' = FALSE
    /\ pc' = "allocCheck"
    /\ UNCHANGED <<owner, listener, fatal, argVars, localPort, conn, freePolls, spawned,
                   result, bgVars>>

\* port := strconv.Itoa(...Port); listener.Close() succeeds; return port, nil
CloseOk ==
    /\ Running /\ pc = "close"
    /\ owner' = [owner EXCEPT ![listener] = "free"]
    /\ listener' = 0
    /\ port' = Itoa(listener)
    /\ allocErr' = FALSE
    /\ pc' = "allocCheck"
    /\ UNCHANGED <<fatal, argVars, localPort, conn, freePolls, spawned, result, bgVars>>

\* listener.Close() fails: return "", err; the socket may or may not be gone
CloseErr ==
    /\ Running /\ pc = "close"
    /\ \E released \in BOOLEAN :
        IF released
        THEN owner' = [owner EXCEPT ![listener] = "free"] /\ listener' = 0
        ELSE UNCHANGED <<owner, listener>>
    /\ port' = <<>>
    /\ allocErr' = TRUE
    /\ pc' = "allocCheck"
    /\ UNCHANGED <<fatal, argVars, localPort, conn, freePolls, spawned, result, bgVars>>

findFreePort == ListenOk \/ ListenErr \/ CloseOk \/ CloseErr

\* ---------------------------------------------------------------- Setup
\* localPort, err := findFreePort(); if err != nil { log.Fatal }
AllocCheck ==
    /\ Running /\ pc = "allocCheck"
    /\ IF allocErr
       THEN /\ Fatal("Error finding unused port")
            /\ UNCHANGED <<pc, localPort>>
       ELSE /\ localPort' = port
            /\ pc' = "freeDial"
            /\ UNCHANGED <<owner, fatal>>
    /\ UNCHANGED <<argVars, listener, port, allocErr, conn, freePolls, spawned, result,
                   bgVars>>

\* first loop, the dial
FreeDial ==
    /\ Running /\ pc = "freeDial"
    /\ conn' = DialTimeout(owner, localPort)
    /\ pc' = "freeCheck"
    /\ UNCHANGED <<owner, fatal, argVars, listener, port, allocErr, localPort, freePolls,
                   spawned, result, bgVars>>

\* the first loop with its test inverted: it breaks when the dial connected
FreeCheckInverted ==
    /\ Running /\ pc = "freeCheck"
    /\ IF conn = "nil"
       THEN /\ freePolls' = IF freePolls < MaxPolls THEN freePolls + 1 ELSE freePolls
            /\ pc' = "freeDial"
            /\ UNCHANGED conn
       ELSE /\ conn' = "closed"
            /\ pc' = "spawn"
            /\ freePolls' = 0
    /\ UNCHANGED <<owner, fatal, argVars, listener, port, allocErr, localPort, spawned,
                   result, bgVars>>

\* first loop, the branch: close and sleep while the dial connected, else break
FreeCheck ==
    /\ Running /\ pc = "freeCheck"
    /\ IF conn # "nil"
       THEN /\ conn' = "closed"
            /\ freePolls' = IF freePolls < MaxPolls THEN freePolls + 1 ELSE freePolls
            /\ pc' = "freeDial"
       ELSE /\ pc' = "spawn"
            /\ freePolls' = 0
            /\ UNCHANGED conn
    /\ UNCHANGED <<owner, fatal, argVars, listener, port, allocErr, localPort, spawned,
                   result, bgVars>>

\* go func() { err := runPortForward(kubeConfig, labelSelector, localPort, namespace) ... }()
Spawn ==
    /\ Running /\ pc = "spawn"
    /\ spawned' = spawned + 1
    /\ bgpc' = "config"
    /\ bgLocalPort' = localPort
    /\ ns' = namespace
    /\ pc' = "waitDial"
    /\ UNCHANGED <<owner, fatal, argVars, listener, port, allocErr, localPort, conn,
                   freePolls, result, resolveVars, fwPorts, launches, err>>

\* second loop, the dial
WaitDial ==
    /\ Running /\ pc = "waitDial"
    /\ conn' = DialTimeout(owner, localPort)
    /\ pc' = "waitCheck"
    /\ UNCHANGED <<owner, fatal, argVars, listener, port, allocErr, localPort, freePolls,
                   spawned, result, bgVars>>

\* the second loop with its test inverted: it breaks when the dial failed
WaitCheckInverted ==
    /\ Running /\ pc = "waitCheck"
    /\ IF conn # "nil"
       THEN /\ conn' = "closed"
            /\ pc' = "waitDial"
       ELSE /\ pc' = "return"
            /\ UNCHANGED conn
    /\ UNCHANGED <<owner, fatal, argVars, listener, port, allocErr, localPort, freePolls,
                   spawned, result, bgVars>>

\* second loop, the branch: close and break once the dial connected, else sleep
WaitCheck ==
    /\ Running /\ pc = "waitCheck"
    /\ IF conn # "nil"
       THEN /\ conn' = "closed"
            /\ pc' = "return"
       ELSE /\ pc' = "waitDial"
            /\ UNCHANGED conn
    /\ UNCHANGED <<owner, fatal, argVars, listener, port, allocErr, localPort, freePolls,
                   spawned, result, bgVars>>

\* return localPort
Return ==
    /\ Running /\ pc = "return"
    /\ result' = localPort
    /\ pc' = "returned"
    /\ UNCHANGED <<owner, fatal, argVars, listener, port, allocErr, localPort, conn,
                   freePolls, spawned, bgVars>>

Setup == findFreePort \/ AllocCheck \/ FreeDial \/ FreeCheck \/ Spawn \/ WaitDial
            \/ WaitCheck \/ Return

\* ---------------------------------------------------------------- runPortForward
NamespaceAll == ""

InBg(at) == Running /\ bgpc = at

\* clientcmd.BuildConfigFromFlags; log.Fatal on error
BuildConfig ==
    /\ InBg("config")
    /\ \E ok \in BOOLEAN :
        IF ok
        THEN bgpc' = "clientset" /\ UNCHANGED <<owner, fatal>>
        ELSE Fatal("Failed to connect to Kubernetes") /\ UNCHANGED bgpc
    /\ UNCHANGED <<argVars, setupVars, bgLocalPort, ns, resolveVars, fwPorts, launches, err>>

\* kubernetes.NewForConfig; log.Fatal on error; then ns defaults to NamespaceAll
NewForConfig ==
    /\ InBg("clientset")
    /\ \E ok \in BOOLEAN :
        IF ok
        THEN /\ bgpc' = "listPods"
             /\ ns' = IF ns = "" THEN NamespaceAll ELSE ns
             /\ UNCHANGED <<owner, fatal>>
        ELSE Fatal("Failed to connect to Kubernetes") /\ UNCHANGED <<bgpc, ns>>
    /\ UNCHANGED <<argVars, setupVars, bgLocalPort, resolveVars, fwPorts, launches, err>>

\* what Pods(n).List can answer: pods of namespace n, of any namespace for NamespaceAll
PodLists(n) ==
    {l \in SeqsUpTo(PodSet, MaxPods) :
        \A i \in 1..Len(l) : n = NamespaceAll \/ l[i].ns = n}

\* ListPods without the check for more than one pod: it picks the first of many
ListPodsFirstOfMany ==
    /\ InBg("listPods")
    /\ podQuery' = Append(podQuery, [ns |-> ns, selector |-> labelSelector])
    /\ \E listErr \in BOOLEAN, items \in PodLists(ns) :
        /\ listErr => items = <<>>
        /\ podErr' = listErr
        /\ podList' = items
        /\ IF listErr \/ Len(items) = 0
           THEN /\ Fatal("Error getting controller pod for port-forwarding")
                /\ UNCHANGED <<bgpc, podName, podNameSpace>>
           ELSE /\ podName' = items[1].name
                /\ podNameSpace' = items[1].ns
                /\ bgpc' = "listSvcs"
                /\ UNCHANGED <<owner, fatal>>
    /\ UNCHANGED <<argVars, setupVars, bgLocalPort, ns, svcQuery, svcErr, svcCount,
                   service, targetPort, ports, fwPorts, launches, err>>

\* Pods(ns).List(...), the two checks on its answer, and "pick the first pod"
ListPods ==
    /\ InBg("listPods")
    /\ podQuery' = Append(podQuery, [ns |-> ns, selector |-> labelSelector])
    /\ \E listErr \in BOOLEAN, items \in PodLists(ns) :
        /\ listErr => items = <<>>
        /\ podErr' = listErr
        /\ podList' = items
        /\ IF listErr \/ Len(items) = 0
           THEN /\ Fatal("Error getting controller pod for port-forwarding")
                /\ UNCHANGED <<bgpc, podName, podNameSpace>>
           ELSE IF Len(items) > 1
           THEN /\ Fatal("Found fission installs, set FISSION_NAMESPACE")
                /\ UNCHANGED <<bgpc, podName, podNameSpace>>
           ELSE /\ podName' = items[1].name
                /\ podNameSpace' = items[1].ns
                /\ bgpc' = "listSvcs"
                /\ UNCHANGED <<owner, fatal>>
    /\ UNCHANGED <<argVars, setupVars, bgLocalPort, ns, svcQuery, svcErr, svcCount,
                   service, targetPort, ports, fwPorts, launches, err>>

RECURSIVE RangePorts(_, _)
\* var targetPort string; for _, servicePort := range Ports { targetPort = ...String() }
RangePorts(servicePorts, acc) ==
    IF servicePorts = <<>> THEN acc
    ELSE RangePorts(Tail(servicePorts), TargetPortString(Head(servicePorts)))

\* what Services(n).List can answer; the code reads len(svcs.Items) and
\* svcs.Items[0] only
ServiceLists == ListsByHead(ServiceSet, MaxSvcs)

\* the pair written remote first
PortComboSwapped(local, target) == <<target \o <<":">> \o local>>

\* portCombo := localPort + ":" + targetPort; ports := []string{portCombo}
PortCombo(local, target) == <<local \o <<":">> \o target>>

\* ListServices without the check for an empty list: it goes on with no service
ListServicesNoEmptyCheck ==
    /\ InBg("listSvcs")
    /\ svcQuery' = Append(svcQuery, [ns |-> podNameSpace, selector |-> labelSelector])
    /\ \E listErr \in BOOLEAN, svcs \in ServiceLists :
        /\ listErr => svcs = <<>>
        /\ svcErr' = listErr
        /\ svcCount' = Len(svcs)
        /\ IF listErr
           THEN /\ Fatal("Error getting service")
                /\ UNCHANGED <<bgpc, service, targetPort, ports>>
           ELSE LET first == IF svcs = <<>> THEN <<>> ELSE svcs[1]
                IN  /\ service' = first
                    /\ targetPort' = RangePorts(first, <<>>)
                    /\ ports' = PortCombo(bgLocalPort, RangePorts(first, <<>>))
                    /\ bgpc' = "roundTripper"
                    /\ UNCHANGED <<owner, fatal>>
    /\ UNCHANGED <<argVars, setupVars, bgLocalPort, ns, podQuery, podErr, podList,
                   podName, podNameSpace, fwPorts, launches, err>>

\* Services(podNameSpace).List(...), its checks, targetPort and the ports slice
ListServices ==
    /\ InBg("listSvcs")
    /\ svcQuery' = Append(svcQuery, [ns |-> podNameSpace, selector |-> labelSelector])
    /\ \E listErr \in BOOLEAN, svcs \in ServiceLists :
        /\ listErr => svcs = <<>>
        /\ svcErr' = listErr
        /\ svcCount' = Len(svcs)
        /\ IF listErr
           THEN /\ Fatal("Error getting service")
                /\ UNCHANGED <<bgpc, service, targetPort, ports>>
           ELSE IF Len(svcs) = 0
           THEN /\ Fatal("Service not found")
                /\ UNCHANGED <<bgpc, service, targetPort, ports>>
           ELSE /\ service' = svcs[1]
                /\ targetPort' = RangePorts(svcs[1], <<>>)
                /\ ports' = PortCombo(bgLocalPort, RangePorts(svcs[1], <<>>))
                /\ bgpc' = "roundTripper"
                /\ UNCHANGED <<owner, fatal>>
    /\ UNCHANGED <<argVars, setupVars, bgLocalPort, ns, podQuery, podErr, podList,
                   podName, podNameSpace, fwPorts, launches, err>>

\* spdy.RoundTripperFor(config); log.Fatal on error
RoundTripperFor ==
    /\ InBg("roundTripper")
    /\ \E ok \in BOOLEAN :
        IF ok
        THEN bgpc' = "new" /\ UNCHANGED <<owner, fatal>>
        ELSE Fatal("Failed to connect to Fission service on Kubernetes") /\ UNCHANGED bgpc
    /\ UNCHANGED <<argVars, setupVars, bgLocalPort, ns, resolveVars, fwPorts, launches, err>>

\* the forwarder's reading of one "local:remote" string; <<>> stands for its error
ParsePort(s) ==
    LET parts == Split(s, ":")
        localStr == IF parts[1] = <<>> THEN <<"0">> ELSE parts[1]
        remoteStr == IF Len(parts) = 1 THEN parts[1] ELSE parts[2]
    IN  IF Len(parts) > 2 THEN <<>>
        ELSE IF ParseUint(localStr) = -1 \/ ParseUint(remoteStr) < 1 THEN <<>>
        ELSE <<ParseUint(localStr), ParseUint(remoteStr)>>

\* portforward.New(dialer, ports, ...); log.Fatal when it rejects the ports
New ==
    /\ InBg("new")
    /\ IF ports = <<>> \/ \E i \in 1..Len(ports) : ParsePort(ports[i]) = <<>>
       THEN /\ Fatal("portforward.new errored out")
            /\ UNCHANGED <<bgpc, fwPorts>>
       ELSE /\ fwPorts' = [i \in 1..Len(ports) |-> ParsePort(ports[i])]
            /\ bgpc' = "forward"
            /\ UNCHANGED <<owner, fatal>>
    /\ UNCHANGED <<argVars, setupVars, bgLocalPort, ns, resolveVars, launches, err>>

\* fw.ForwardPorts() is called and dials the pod: its error is returned
ForwardPorts ==
    /\ InBg("forward")
    /\ launches' = launches + 1
    /\ \E ok \in BOOLEAN :
        IF ok
        THEN bgpc' = "bind" /\ UNCHANGED err
        ELSE bgpc' = "goCheck" /\ err' = "error"
    /\ UNCHANGED <<owner, fatal, argVars, setupVars, bgLocalPort, ns, resolveVars,
                   fwPorts>>

\* fw.ForwardPorts() listens on the local port of each pair; it returns an error
\* when it can listen on none of them
Bind ==
    /\ InBg("bind")
    /\ LET free == {i \in 1..Len(fwPorts) :
                       fwPorts[i][1] \in Ports /\ owner[fwPorts[i][1]] = "free"}
       IN  IF free = {}
           THEN /\ bgpc' = "goCheck" /\ err' = "error"
                /\ UNCHANGED owner
           ELSE /\ owner' = [p \in Ports |->
                               IF \E i \in free : fwPorts[i][1] = p THEN "tunnel"
                               ELSE owner[p]]
                /\ bgpc' = "forwarding"
                /\ UNCHANGED err
    /\ UNCHANGED <<fatal, argVars, setupVars, bgLocalPort, ns, resolveVars,
                   fwPorts, launches>>

\* fw.ForwardPorts() returns while forwarding (the connection to the pod is lost):
\* its listeners are closed, and runPortForward returns what it returned
ForwardEnd ==
    /\ InBg("forwarding")
    /\ owner' = [p \in Ports |-> IF owner[p] = "tunnel" THEN "free" ELSE owner[p]]
    /\ \E e \in {"nil", "error"} : err' = e
    /\ bgpc' = "goCheck"
    /\ UNCHANGED <<fatal, argVars, setupVars, bgLocalPort, ns, resolveVars,
                   fwPorts, launches>>

\* the goroutine dropping the error runPortForward returned
GoCheckIgnoresErr ==
    /\ InBg("goCheck")
    /\ bgpc' = "done"
    /\ UNCHANGED <<owner, fatal, argVars, setupVars, bgLocalPort, ns, resolveVars,
                   fwPorts, launches, err>>

\* the goroutine: if err != nil { log.Fatal }
GoCheck ==
    /\ InBg("goCheck")
    /\ IF err # "nil"
       THEN Fatal("Error forwarding to controller port") /\ UNCHANGED bgpc
       ELSE bgpc' = "done" /\ UNCHANGED <<owner, fatal>>
    /\ UNCHANGED <<argVars, setupVars, bgLocalPort, ns, resolveVars, fwPorts, launches, err>>

runPortForward == BuildConfig \/ NewForConfig \/ ListPods \/ ListServices
                    \/ RoundTripperFor \/ New \/ ForwardPorts \/ Bind \/ ForwardEnd

Next == OtherBind \/ OtherRelease \/ Setup \/ runPortForward \/ GoCheck

Spec == Init /\ [][Next]_vars

\* the Go scheduler runs every runnable goroutine: Setup's loops keep taking steps
\* and the started goroutine reaches the test of the error it was returned
LiveSpec == Spec /\ WF_vars(Setup) /\ WF_vars(GoCheck)

\* ---------------------------------------------------------------- properties
PortOf(str) == ParseUint(str)

Listening(str) == PortOf(str) \in Ports /\ owner[PortOf(str)] # "free"

TunnelListening(str) == PortOf(str) \in Ports /\ owner[PortOf(str)] = "tunnel"

NoTunnel == \A p \in Ports : owner[p] # "tunnel"

Resolved == bgpc \in {"roundTripper", "new", "forward", "bind", "forwarding", "goCheck",
                      "done"}

Launched == bgpc \in {"bind", "forwarding", "goCheck", "done"}

PodFatal == {"Error getting controller pod for port-forwarding",
             "Found fission installs, set FISSION_NAMESPACE"}

SvcFatal == {"Error getting service", "Service not found"}

\* C1: whenever Setup returns port p, the tunnel started by that call listens on p
\* at the moment of the return, whatever other processes do with p.
C1_ReturnsOnlyWhenTunnelListens ==
    [][(pc = "return" /\ pc' = "returned") => TunnelListening(result')]_vars

\* C2: when the pod list call errors or returns zero or several pods, the process
\* is in the fatal state, no service lookup was made, ForwardPorts was not called,
\* no tunnel listens, and the pods were listed once.
C2_PodLookupFailureIsFatal ==
    (Len(podQuery) > 0 /\ (podErr \/ Len(podList) # 1)) =>
        /\ fatal \in PodFatal
        /\ Len(podQuery) = 1
        /\ svcQuery = <<>>
        /\ launches = 0
        /\ ~Launched
        /\ NoTunnel

C2_Witness ==
    /\ Len(podQuery) = 1 /\ ~podErr /\ Len(podList) = 2
    /\ fatal = "Found fission installs, set FISSION_NAMESPACE"

\* C3: the services are listed only after exactly one pod was resolved, in that
\* pod's namespace with Setup's selector; when that call errors or returns no
\* service the process is in the fatal state, nothing was resolved and no tunnel
\* was started.
C3_ServiceLookupFailureIsFatal ==
    /\ Len(svcQuery) > 0 =>
        /\ ~podErr /\ Len(podList) = 1
        /\ svcQuery = <<[ns |-> podList[1].ns, selector |-> labelSelector]>>
    /\ (Len(svcQuery) > 0 /\ (svcErr \/ svcCount = 0)) =>
        /\ fatal \in SvcFatal
        /\ ~Resolved
        /\ service = NoService /\ targetPort = <<>> /\ ports = <<>>
        /\ launches = 0
        /\ NoTunnel

C3_Witness ==
    /\ Len(svcQuery) = 1 /\ ~svcErr /\ svcCount = 0
    /\ fatal = "Service not found"

\* the target port of the first declared port of a service, <<>> when it has none
FirstDeclaredTargetPort(svc) ==
    IF svc = <<>> THEN <<>> ELSE TargetPortString(svc[1])

\* C4: after a successful resolution the destination port is the target port of
\* the first declared port of the first service, however many ports it declares.
C4_FirstDeclaredPortIsUsed ==
    Resolved => targetPort = FirstDeclaredTargetPort(service)

\* C5: when findFreePort returns a port its listener is closed, so this process
\* holds no socket on the port; when it returns an error it returns no port, and
\* Setup exits fatally before any dial and before the goroutine is started.
C5_NoReservation ==
    /\ (pc \notin {"listen", "close"} /\ ~allocErr) =>
        /\ listener = 0
        /\ \A p \in Ports : owner[p] # "alloc"
        /\ PortOf(port) \in Ports
    /\ allocErr =>
        /\ port = <<>>
        /\ pc = "allocCheck"
        /\ fatal \in {"", "Error finding unused port"}
        /\ conn = "unset" /\ spawned = 0 /\ bgpc = "none" /\ NoTunnel

C5_Witness ==
    /\ pc = "freeDial" /\ ~allocErr
    /\ PortOf(localPort) \in Ports /\ owner[PortOf(localPort)] = "free"

C7_OneTunnelOneMapping ==
    /\ spawned <= 1 /\ launches <= 1
    /\ pc \in {"waitDial", "waitCheck", "return", "returned"} => spawned = 1
    /\ spawned = 1 => (bgLocalPort = localPort /\ localPort = port)
    /\ Resolved => ports = <<localPort \o <<":">> \o targetPort>>
    /\ bgpc \in {"forward", "bind", "forwarding", "goCheck", "done"} =>
           fwPorts = <<<<PortOf(localPort), PortOf(targetPort)>>>>
    /\ Launched => launches = 1
    /\ \A p \in Ports : owner[p] = "tunnel" => p = PortOf(localPort)
    /\ pc = "returned" => result = localPort

C7_Witness ==
    /\ pc = "returned" /\ bgpc = "forwarding"
    /\ TunnelListening(result)
    /\ fwPorts = <<<<PortOf(result), 8080>>>>

\* C8: pods and services are listed, and the forwarder run, at most once; a
\* failed transport setup ends the process before the forwarder is run; and an
\* error returned by ForwardPorts, before or after Setup returned, is followed by
\* the fatal exit and by nothing else of the goroutine.
C8_Safe ==
    /\ Len(podQuery) <= 1 /\ Len(svcQuery) <= 1 /\ launches <= 1 /\ spawned <= 1
    /\ fatal \in {"Failed to connect to Fission service on Kubernetes",
                  "portforward.new errored out"} => (launches = 0 /\ NoTunnel)
    /\ err = "error" =>
        /\ bgpc = "goCheck"
        /\ fatal \in {"", "Error forwarding to controller port"}
        /\ NoTunnel

C8_ErrorsAreFatalAndNotRetried ==
    []C8_Safe /\ ((err = "error") ~> (fatal = "Error forwarding to controller port"))

C8_Witness ==
    /\ err = "error" /\ pc = "returned"
    /\ fatal = "Error forwarding to controller port"

\* C9: the goroutine is started only from a failed dial of the local port; a dial
\* that connects sends the first loop round again, any number of times, with the
\* goroutine not started and Setup not returned.
C9_Step ==
    /\ spawned' # spawned => (pc = "spawn" /\ conn = "nil")
    /\ pc' = "spawn" => conn' = "nil"
    /\ (pc = "freeCheck" /\ conn = "open" /\ pc' # pc) =>
           (pc' = "freeDial" /\ freePolls' >= freePolls)
    /\ pc' \in {"freeDial", "freeCheck"} =>
           (spawned' = 0 /\ bgpc' = "none" /\ result' = <<>>)

C9_StartsOnlyAfterPortSeenFree == [][C9_Step]_vars

C9_Witness ==
    /\ pc = "freeCheck" /\ conn = "open" /\ freePolls = MaxPolls
    /\ spawned = 0

\* C10: Setup returns only after the pod and service resolution of its goroutine
\* has succeeded.
C10_ReturnsOnlyAfterResolution ==
    pc = "returned" => Resolved

====
